---- MODULE Spec2Model ----
(***************************************************************************)
(* Model of src/lang.cc: the lexer (gettoken), the recursive-descent       *)
(* parser with precedence climbing, and the driver loop (repl).            *)
(*                                                                         *)
(* Characters are one-character strings, EOF is the string "EOF".  Tokens  *)
(* are strings: the five token classes by their enum names, and a          *)
(* punctuation token by its character.  A double is an exact decimal       *)
(* [m, e] standing for m / 10^e, normalised (no trailing zero in the       *)
(* fraction).                                                              *)
(***************************************************************************)
EXTENDS Integers, Sequences, FiniteSets, TLC

VARIABLES input,      \* the whole character stream given on stdin
          stdin,      \* the characters of stdin not yet read
          cursor,     \* gettoken's static lookahead character
          ident,      \* static std::string ident
          numval,     \* static double numval
          reads,      \* how many times std::getchar has been called
          token,      \* static int token
          precedence, \* static std::map<char,int> precedence
          pc,         \* position of the driver
          last,       \* what the last parse function called by the driver returned
          stderr,     \* the messages written to stderr
          trace,      \* the returns of the parse functions during the last handler
          toks,       \* the tokens returned so far, with their payloads
          ref,        \* a second lexer, reading the input with its comments removed
          reftoks     \* the tokens returned so far by the second lexer

vars == <<input, stdin, cursor, ident, numval, reads, token, precedence, pc, last,
          stderr, trace, toks, ref, reftoks>>

----------------------------------------------------------------------------
(* Bounds *)

MaxFrags == 4
MaxTokens == 4
MaxArgs == 2
MaxEofCalls == 2

\* the parameters of a prototype of the inputs
MaxParams == 2

----------------------------------------------------------------------------
(* Characters and tokens *)

EOF == "EOF"

tok_eof == "tok_eof"
tok_def == "tok_def"
tok_extern == "tok_extern"
tok_ident == "tok_ident"
tok_number == "tok_number"

TokenClasses == {tok_eof, tok_def, tok_extern, tok_ident, tok_number}

Lower == {"a","b","c","d","e","f","g","h","i","j","k","l","m",
          "n","o","p","q","r","s","t","u","v","w","x","y","z"}
Upper == {"A","B","C","D","E","F","G","H","I","J","K","L","M",
          "N","O","P","Q","R","S","T","U","V","W","X","Y","Z"}
Digits == {"0","1","2","3","4","5","6","7","8","9"}

isspace(c) == c \in {" ", "\t", "\n", "\f", "\r"}
\* isalpha, taking the underscore for a letter
isalphaOrUnderscore(c) == c \in Lower \cup Upper \cup {"_"}

isalpha(c) == c \in Lower \cup Upper
isdigit(c) == c \in Digits
isalnum(c) == isalpha(c) \/ isdigit(c)

DigitVal(c) ==
   CASE c = "0" -> 0 [] c = "1" -> 1 [] c = "2" -> 2 [] c = "3" -> 3
     [] c = "4" -> 4 [] c = "5" -> 5 [] c = "6" -> 6 [] c = "7" -> 7
     [] c = "8" -> 8 [] c = "9" -> 9

----------------------------------------------------------------------------
(* std::strtod on a run of digits and decimal points that starts with a    *)
(* digit: the longest prefix digits [ '.' digits ] is converted, the rest  *)
(* of the text is ignored.                                                 *)

RECURSIVE Normalise(_)
Normalise(d) ==
   IF d.e > 0 /\ d.m % 10 = 0 THEN Normalise([m |-> d.m \div 10, e |-> d.e - 1])
   ELSE d

RECURSIVE StrtodFrom(_, _, _, _)
StrtodFrom(text, i, d, dot) ==
   IF i > Len(text) THEN d
   ELSE IF isdigit(text[i])
        THEN StrtodFrom(text, i + 1,
                        [m |-> d.m * 10 + DigitVal(text[i]),
                         e |-> IF dot THEN d.e + 1 ELSE 0], dot)
   ELSE IF text[i] = "." /\ ~dot THEN StrtodFrom(text, i + 1, d, TRUE)
   ELSE d

strtod(text) == Normalise(StrtodFrom(text, 1, [m |-> 0, e |-> 0], FALSE))

----------------------------------------------------------------------------
(* The lexer.  Its state is lx = [stdin, cursor, ident, numval, reads].    *)

\* cursor = std::getchar()
getchar(lx) ==
   IF lx.stdin = <<>> THEN [lx EXCEPT !.cursor = EOF, !.reads = @ + 1]
   ELSE [lx EXCEPT !.cursor = Head(lx.stdin), !.stdin = Tail(lx.stdin), !.reads = @ + 1]

\* while (std::isspace(cursor)) cursor = std::getchar();
RECURSIVE SkipSpace(_)
SkipSpace(lx) == IF isspace(lx.cursor) THEN SkipSpace(getchar(lx)) ELSE lx

\* InComment, without the carriage return
InCommentToNewline(c) == c # EOF /\ c # "\n"

\* the condition of the do-while that skips a comment
InComment(c) == c # EOF /\ c # "\n" /\ c # "\r"

\* do cursor = std::getchar(); while (cursor != EOF && cursor != '\n' && cursor != '\r');
RECURSIVE SkipComment(_)
SkipComment(lx) ==
   LET nx == getchar(lx) IN IF InComment(nx.cursor) THEN SkipComment(nx) ELSE nx

\* while (std::isalnum((cursor = std::getchar()))) ident += cursor;
RECURSIVE ScanIdent(_)
ScanIdent(lx) ==
   LET nx == getchar(lx) IN
   IF isalnum(nx.cursor) THEN ScanIdent([nx EXCEPT !.ident = @ \o nx.cursor])
   ELSE nx

\* Keyword, matching a keyword as a prefix of the identifier
KeywordPrefix(id) ==
   IF id \in {"def", "defx", "def1", "defdef", "defextern"} THEN tok_def
   ELSE IF id \in {"extern", "externx", "extern1", "externdef", "externextern"} THEN tok_extern
   ELSE tok_ident

\* the classification of a scanned identifier
Keyword(id) ==
   IF id = "def" THEN tok_def
   ELSE IF id = "extern" THEN tok_extern
   ELSE tok_ident

\* InNumber, without the decimal point
InNumberDigitsOnly(c) == isdigit(c)

\* the condition of the do-while that scans a number
InNumber(c) == isdigit(c) \/ c = "."

\* do { number += cursor; cursor = std::getchar(); } while (isdigit(cursor) || cursor == '.');
RECURSIVE ScanNumber(_, _)
ScanNumber(lx, number) ==
   LET nx == getchar(lx)
       n2 == Append(number, lx.cursor)
   IN IF InNumber(nx.cursor) THEN ScanNumber(nx, n2) ELSE [lx |-> nx, number |-> n2]

\* whether gettoken calls itself after a comment
AfterComment(c) == c # EOF

\* Classify, reading one character more after a punctuation character
ClassifyDroppingLookahead(lx) ==
   IF isalpha(lx.cursor)
   THEN LET s == ScanIdent([lx EXCEPT !.ident = lx.cursor])
        IN [tok |-> Keyword(s.ident), lx |-> s]
   ELSE IF isdigit(lx.cursor)
   THEN LET s == ScanNumber(lx, <<>>)
        IN [tok |-> tok_number, lx |-> [s.lx EXCEPT !.numval = strtod(s.number)]]
   ELSE IF lx.cursor = EOF
   THEN [tok |-> tok_eof, lx |-> lx]
   ELSE [tok |-> lx.cursor, lx |-> getchar(getchar(lx))]

\* Classify, calling getchar again at the end of input
ClassifyReadingAtEof(lx) ==
   IF isalpha(lx.cursor)
   THEN LET s == ScanIdent([lx EXCEPT !.ident = lx.cursor])
        IN [tok |-> Keyword(s.ident), lx |-> s]
   ELSE IF isdigit(lx.cursor)
   THEN LET s == ScanNumber(lx, <<>>)
        IN [tok |-> tok_number, lx |-> [s.lx EXCEPT !.numval = strtod(s.number)]]
   ELSE IF lx.cursor = EOF
   THEN [tok |-> tok_eof, lx |-> getchar(lx)]
   ELSE [tok |-> lx.cursor, lx |-> getchar(lx)]

\* gettoken without its leading comment step
Classify(lx) ==
   IF isalpha(lx.cursor)
   THEN LET s == ScanIdent([lx EXCEPT !.ident = lx.cursor])
        IN [tok |-> Keyword(s.ident), lx |-> s]
   ELSE IF isdigit(lx.cursor)
   THEN LET s == ScanNumber(lx, <<>>)
        IN [tok |-> tok_number, lx |-> [s.lx EXCEPT !.numval = strtod(s.number)]]
   ELSE IF lx.cursor = EOF
   THEN [tok |-> tok_eof, lx |-> lx]
   ELSE [tok |-> lx.cursor, lx |-> getchar(lx)]

RECURSIVE gettoken(_)
gettoken(lx) ==
   LET l1 == SkipSpace(lx) IN
   IF l1.cursor = "#"
   THEN LET l2 == SkipComment(l1) IN
        IF AfterComment(l2.cursor) THEN gettoken(l2) ELSE Classify(l2)
   ELSE Classify(l1)

\* the lexer before its first call: cursor = ' ', ident empty, numval zero
NewLexer(chars) ==
   [stdin |-> chars, cursor |-> " ", ident |-> "", numval |-> [m |-> 0, e |-> 0],
    reads |-> 0]

\* a returned token with the payloads it leaves behind
Lexeme(r) == [tok |-> r.tok, ident |-> r.lx.ident, numval |-> r.lx.numval]

----------------------------------------------------------------------------
(* The precedence table *)

\* init()
InitPrecedence ==
   [c \in {"<", ">", "+", "-", "*", "/"} |->
      CASE c \in {"<", ">"} -> 10 [] c \in {"+", "-"} -> 20 [] c \in {"*", "/"} -> 40]

----------------------------------------------------------------------------
(* The abstract syntax tree.  Null is the failure indicator (nullptr).     *)

Null == [kind |-> "null"]
NumberExprAST(val) == [kind |-> "Number", val |-> val]
VariableExprAST(name) == [kind |-> "Variable", name |-> name]
BinaryExprAST(op, left, right) ==
   [kind |-> "Binary", op |-> op, left |-> left, right |-> right]
CallExprAST(callee, args) == [kind |-> "Call", callee |-> callee, args |-> args]
PrototypeAST(name, args) == [kind |-> "Prototype", name |-> name, args |-> args]
FunctionAST(proto, body) == [kind |-> "Function", proto |-> proto, body |-> body]

----------------------------------------------------------------------------
(* The parser.  Its functions take and return the globals they change as   *)
(* m = [lex, token, precedence, stderr, trace], and return [node, m].      *)
(* trace is the log of what happened during the call: every call of err,   *)
(* every evaluated assert and every return of a parse function, each with  *)
(* the current token and the state of the lexer at that moment.            *)

Event(m, ev, fn, node) ==
   [ev |-> ev, fn |-> fn, node |-> node, token |-> m.token,
    cursor |-> m.lex.cursor, left |-> Len(m.lex.stdin)]

Log(m, ev, fn, node) == [m EXCEPT !.trace = Append(@, Event(m, ev, fn, node))]

\* return r from the parse function fn
Ret(fn, r) == [node |-> r.node, m |-> Log(r.m, "ret", fn, r.node)]

\* assert(cond) at the entry of fn
Assert_(m, fn, cond) == Log(m, IF cond THEN "assert_ok" ELSE "assert_failed", fn, Null)

\* return token = gettoken()
Took(m, r) == [m EXCEPT !.lex = r.lx, !.token = r.tok]

nexttoken(m) == Took(m, gettoken(m.lex))

\* isascii(token): the token classes are negative, a character token is its code
isascii(tok) == tok \notin TokenClasses

\* std::map<char,int>::operator[]: a key that is absent is inserted with value 0
MapIndex(map, key) == IF key \in DOMAIN map THEN map ELSE map @@ (key :> 0)

\* int pr = precedence[token]; if (pr <= 0) return -1; return pr;
Looked(m, map) ==
   [pr |-> IF map[m.token] <= 0 THEN -1 ELSE map[m.token],
    m |-> [m EXCEPT !.precedence = map]]

get_token_precedence(m) ==
   IF ~isascii(m.token) THEN [pr |-> -1, m |-> m]
   ELSE Looked(m, MapIndex(m.precedence, m.token))

\* fprintf(stderr, "error: %s\n", str)
Printed(m, str) == Log([m EXCEPT !.stderr = Append(@, "error: " \o str \o "\n")], "err", str, Null)

\* err, then discarding the token it was called at
errSkipping(m, str) == [node |-> Null, m |-> nexttoken(Printed(m, str))]

\* err and errproto: print the message, return nullptr
err(m, str) == [node |-> Null, m |-> Printed(m, str)]

\* while (token != ')'), with end of input closing the list as well
ArgsDoneOrEof(tok) == tok = ")" \/ tok = tok_eof

\* the negation of the condition of the loop over a call's arguments
ArgsDone(tok) == tok = ")"

(* A parse function is written as a chain of operators, one per call it     *)
(* makes: each takes what the call before it returned.                      *)

RECURSIVE parse_expr(_), parse_primary_expr(_), parse_paren_expr(_),
          parse_ident_expr(_), ParseArgs(_, _), parse_binary_op_right(_, _, _),
          BinaryLoop(_, _, _, _)

\* auto result = make_unique<NumberExprAST>(numval); nexttoken(); return result;
NumberResult(m) == [node |-> NumberExprAST(m.lex.numval), m |-> nexttoken(m)]

parse_number_expr(m) ==
   Ret("parse_number_expr",
       NumberResult(Assert_(m, "parse_number_expr", m.token = tok_number)))

\* parse_paren_expr after its parse_expr()
ParenClose(expr) ==
   IF expr.node = Null THEN expr
   ELSE IF expr.m.token # ")" THEN err(expr.m, "expected ')'in expression")
   ELSE [node |-> expr.node, m |-> nexttoken(expr.m)]

parse_paren_expr(m) == Ret("parse_paren_expr", ParenClose(parse_expr(nexttoken(m))))

\* the loop over the arguments after an argument is pushed; ok is false when the
\* function returned from inside the loop
ArgNext(args, m) ==
   IF m.token = ")" THEN [ok |-> TRUE, args |-> args, m |-> m]
   ELSE IF m.token # ","
   THEN [ok |-> FALSE, args |-> args,
         m |-> err(m, "expected ')' or ',' in argument list").m]
   ELSE ParseArgs(nexttoken(m), args)

\* if (auto arg = parse_expr()) args.push_back(std::move(arg)); else return nullptr;
ArgParsed(args, arg) ==
   IF arg.node = Null THEN [ok |-> FALSE, args |-> args, m |-> arg.m]
   ELSE ArgNext(Append(args, arg.node), arg.m)

\* while (token != ')') { ... }
ParseArgs(m, args) ==
   IF ArgsDone(m.token) THEN [ok |-> TRUE, args |-> args, m |-> m]
   ELSE ArgParsed(args, parse_expr(m))

\* return make_unique<CallExprAST>(ident, std::move(args)), after the nexttoken()
CallResult(args, m) == [node |-> CallExprAST(m.lex.ident, args), m |-> m]

\* parse_ident_expr after the loop over the arguments
CallClose(a) ==
   IF ~a.ok THEN [node |-> Null, m |-> a.m] ELSE CallResult(a.args, nexttoken(a.m))

\* parse_ident_expr after its first nexttoken()
IdentRest(m) ==
   IF m.token # "(" THEN [node |-> VariableExprAST(m.lex.ident), m |-> m]
   ELSE CallClose(ParseArgs(nexttoken(m), <<>>))

parse_ident_expr(m) ==
   Ret("parse_ident_expr",
       IdentRest(nexttoken(Assert_(m, "parse_ident_expr", m.token = tok_ident))))

\* parse_primary_expr, with the cases of the identifier and the number exchanged
parse_primary_expr_swapped(m) ==
   Ret("parse_primary_expr",
       CASE m.token = tok_ident -> parse_number_expr(m)
         [] m.token = tok_number -> parse_ident_expr(m)
         [] m.token = "(" -> parse_paren_expr(m)
         [] OTHER -> err(m, "unknown token when parsing an expression"))

parse_primary_expr(m) ==
   Ret("parse_primary_expr",
       CASE m.token = tok_ident -> parse_ident_expr(m)
         [] m.token = tok_number -> parse_number_expr(m)
         [] m.token = "(" -> parse_paren_expr(m)
         [] OTHER -> err(m, "unknown token when parsing an expression"))

\* left = make_unique<BinaryExprAST>(op, left, right), and the next iteration
BinaryCombine(pr, tok_prec, op, left, right) ==
   IF right.node = Null THEN right
   ELSE BinaryLoop(pr, tok_prec, BinaryExprAST(op, left, right.node), right.m)

\* if (tok_prec < next_tok_prec) right = parse_binary_op_right(tok_prec+1, right)
BinaryNext(pr, tok_prec, op, left, right, next) ==
   BinaryCombine(pr, tok_prec, op, left,
                 IF tok_prec < next.pr
                 THEN parse_binary_op_right(tok_prec + 1, right, next.m)
                 ELSE [node |-> right, m |-> next.m])

\* if (!right) return nullptr; int next_tok_prec = get_token_precedence();
BinaryRight(pr, tok_prec, op, left, right) ==
   IF right.node = Null THEN right
   ELSE BinaryNext(pr, tok_prec, op, left, right.node, get_token_precedence(right.m))

\* one iteration of while (true); tok_prec is the value read before the loop
BinaryLoop(pr, tok_prec, left, m) ==
   IF tok_prec < pr THEN [node |-> left, m |-> m]
   ELSE BinaryRight(pr, tok_prec, m.token, left, parse_primary_expr(nexttoken(m)))

\* int tok_prec = get_token_precedence(); while (true) ...
BinaryEnter(pr, left, p) == BinaryLoop(pr, p.pr, left, p.m)

parse_binary_op_right(pr, left, m) ==
   Ret("parse_binary_op_right", BinaryEnter(pr, left, get_token_precedence(m)))

\* parse_expr after its parse_primary_expr()
ExprRest(left) ==
   IF left.node = Null THEN left ELSE parse_binary_op_right(0, left.node, left.m)

parse_expr(m) == Ret("parse_expr", ExprRest(parse_primary_expr(m)))

RECURSIVE ProtoArgs(_, _)

\* args.push_back(ident), or the end of the loop
ProtoArg(m, args) ==
   IF m.token = tok_ident THEN ProtoArgs(m, Append(args, m.lex.ident))
   ELSE [args |-> args, m |-> m]

\* while (nexttoken() == tok_ident) args.push_back(ident);
ProtoArgs(m, args) == ProtoArg(nexttoken(m), args)

\* ProtoClose, with the name read from ident when the prototype is built
ProtoCloseLateName(name, a) ==
   IF a.m.token # ")" THEN err(a.m, "expected ')' in prototype")
   ELSE [node |-> PrototypeAST(a.m.lex.ident, a.args), m |-> nexttoken(a.m)]

\* parse_prototype after the loop over the parameters
ProtoClose(name, a) ==
   IF a.m.token # ")" THEN err(a.m, "expected ')' in prototype")
   ELSE [node |-> PrototypeAST(name, a.args), m |-> nexttoken(a.m)]

\* parse_prototype after the nexttoken() that follows the name
ProtoOpen(name, m) ==
   IF m.token # "(" THEN err(m, "expected '(' in prototype")
   ELSE ProtoClose(name, ProtoArgs(m, <<>>))

parse_prototype(m) ==
   Ret("parse_prototype",
       IF m.token # tok_ident THEN err(m, "expected function name in prototype")
       ELSE ProtoOpen(m.lex.ident, nexttoken(m)))

\* DefResult, building the function without testing the body
DefResultUnchecked(proto, expr) ==
   [node |-> FunctionAST(proto, expr.node), m |-> expr.m]

\* if (auto expr = parse_expr()) return make_unique<FunctionAST>(proto, expr);
DefResult(proto, expr) ==
   IF expr.node # Null THEN [node |-> FunctionAST(proto, expr.node), m |-> expr.m]
   ELSE expr

\* parse_def after its parse_prototype()
DefBody(proto) ==
   IF proto.node = Null THEN proto ELSE DefResult(proto.node, parse_expr(proto.m))

parse_def(m) == Ret("parse_def", DefBody(parse_prototype(nexttoken(m))))

parse_extern(m) == Ret("parse_extern", parse_prototype(nexttoken(m)))

parse_top_level_expr(m) ==
   Ret("parse_top_level_expr",
       DefResult(PrototypeAST("__anon_expr", <<>>), parse_expr(m)))

----------------------------------------------------------------------------
(* Inputs *)

RECURSIVE Flatten(_)
Flatten(ss) == IF ss = <<>> THEN <<>> ELSE Head(ss) \o Flatten(Tail(ss))

LexFragments ==
   { <<"d","e","f">>, <<"e","x","t","e","r","n">>, <<"x">>, <<"1">>, <<".">>,
     <<" ">>, <<"\n">>, <<"\r">>, <<"#">>, <<"+">> }

LexInputs ==
   { Flatten(fs) : fs \in UNION { [1..n -> LexFragments] : n \in 0..MaxFrags } }

\* the inputs of the parser: every sequence of at most MaxTokens fragments
ParseFragments ==
   { <<"d","e","f"," ">>, <<"e","x","t","e","r","n"," ">>, <<"x"," ">>, <<"1">>,
     <<"(">>, <<")">>, <<",">>, <<";">>, <<"+">>, <<"*">> }

TokenInputs ==
   { Flatten(fs) : fs \in UNION { [1..n -> ParseFragments] : n \in 0..MaxTokens } }

\* the operands, with the node each is parsed to
Atoms ==
   { [text |-> <<"1">>, ast |-> NumberExprAST([m |-> 1, e |-> 0])],
     [text |-> <<"x">>, ast |-> VariableExprAST("x")] }

Operators == {"<", ">", "+", "-", "*", "/"}

\* what may follow an expression: end of input, or ';'
Terminators == { <<>>, <<";">> }

\* a op1 b op2 c
BinaryText(a, op1, b, op2, c) ==
   a.text \o <<" ", op1, " ">> \o b.text \o <<" ", op2, " ">> \o c.text

\* (a op1 b) op2 c
ParenText(a, op1, b, op2, c) ==
   <<"(">> \o a.text \o <<" ", op1, " ">> \o b.text \o <<")", " ", op2, " ">> \o c.text

BinaryInputs ==
   { BinaryText(a, op1, b, op2, c) \o t :
        a \in Atoms, b \in Atoms, c \in Atoms, op1 \in Operators, op2 \in Operators,
        t \in Terminators }

ParenInputs ==
   { ParenText(a, op1, b, op2, c) \o t :
        a \in Atoms, b \in Atoms, c \in Atoms, op1 \in Operators, op2 \in Operators,
        t \in Terminators }

\* the arguments of a call, with the node each is parsed to
Arguments ==
   Atoms \cup
   { [text |-> <<"2", "+", "3">>,
      ast |-> BinaryExprAST("+", NumberExprAST([m |-> 2, e |-> 0]),
                                 NumberExprAST([m |-> 3, e |-> 0]))],
     [text |-> <<"(", "2", ")">>, ast |-> NumberExprAST([m |-> 2, e |-> 0])] }

ArgumentLists == UNION { [1..n -> Arguments] : n \in 0..MaxArgs }

RECURSIVE ArgsText(_)
ArgsText(as) ==
   IF as = <<>> THEN <<>>
   ELSE IF Len(as) = 1 THEN as[1].text
   ELSE as[1].text \o <<",", " ">> \o ArgsText(Tail(as))

\* foo(e1, ..., en)
CallText(as) == <<"f", "o", "o", "(">> \o ArgsText(as) \o <<")">>

CallInputs == { CallText(as) \o t : as \in ArgumentLists, t \in Terminators }

\* foo(1, 2+3) cut short
Foo123 == <<"f", "o", "o", "(", "1", ",", " ", "2", "+", "3", ")">>
TruncatedInputs == { SubSeq(Foo123, 1, n) : n \in 1..Len(Foo123) }

\* the reserved name of parse_top_level_expr, written by the user
Reserved == <<"_", "_", "a", "n", "o", "n", "_", "e", "x", "p", "r">>

ReservedInputs ==
   { Reserved,
     <<"d", "e", "f", " ">> \o Reserved \o <<"(", ")", " ", "1">>,
     <<"e", "x", "t", "e", "r", "n", " ">> \o Reserved \o <<"(", ")">>,
     <<"e", "x", "t", "e", "r", "n", " ", "a", "n", "o", "n", "(", ")">> }

\* a op b
SimpleText(a, op, b) == a.text \o <<op>> \o b.text

SimpleInputs ==
   { SimpleText(a, op, b) \o t :
        a \in Atoms, b \in Atoms, op \in Operators, t \in Terminators }

\* identifier expressions followed or filled by other identifiers, with the
\* node each is to be parsed to
IdentCases ==
   { [text |-> <<"x", " ", "y">>, ast |-> VariableExprAST("x")],
     [text |-> <<"x", " ", "d", "e", "f">>, ast |-> VariableExprAST("x")],
     [text |-> <<"f", "(", "1", ")">>,
      ast |-> CallExprAST("f", <<NumberExprAST([m |-> 1, e |-> 0])>>)],
     [text |-> <<"f", "(", "1", ")", " ", "y">>,
      ast |-> CallExprAST("f", <<NumberExprAST([m |-> 1, e |-> 0])>>)],
     [text |-> <<"f", "(", "a", ",", " ", "b", ")">>,
      ast |-> CallExprAST("f", <<VariableExprAST("a"), VariableExprAST("b")>>)] }

IdentInputs == { c.text : c \in IdentCases }

\* f(1,)
TrailingComma == <<"f", "(", "1", ",", ")">>

CommaInputs == { TrailingComma \o t : t \in Terminators }

\* the lists of parameter names of a prototype
ParamLists == UNION { [1..n -> {"a", "b"}] : n \in 0..MaxParams }

RECURSIVE ParamsText(_)
ParamsText(ps) ==
   IF ps = <<>> THEN <<>> ELSE <<" ", Head(ps)>> \o ParamsText(Tail(ps))

ProtoKeywords == { <<"d", "e", "f", " ">>, <<"e", "x", "t", "e", "r", "n", " ">> }

\* what follows the ')' of a prototype, with the token it is lexed to
Follows ==
   { [text |-> <<>>, token |-> tok_eof],
     [text |-> <<";">>, token |-> ";"],
     [text |-> <<" ", "1">>, token |-> tok_number] }

\* what may not stand between the parentheses, with the token it is lexed to
NotParams == { [text |-> <<",">>, token |-> ","], [text |-> <<"1">>, token |-> tok_number] }

\* k f( p1 ... pn ) w
ProtoText(k, ps, w) == k \o <<"f", "(">> \o ParamsText(ps) \o <<")">> \o w.text

\* k f( p1 ... pn x q1 ... qm )
BadProtoText(k, ps, x, qs) ==
   k \o <<"f", "(">> \o ParamsText(ps) \o <<" ">> \o x.text \o ParamsText(qs) \o <<")">>

ProtoInputs ==
   { ProtoText(k, ps, w) : k \in ProtoKeywords, ps \in ParamLists, w \in Follows }
      \cup { BadProtoText(k, ps, x, qs) :
                k \in ProtoKeywords, ps \in ParamLists, x \in NotParams,
                qs \in { q \in ParamLists : Len(q) <= 1 } }

ParseInputs ==
   ProtoInputs \cup TokenInputs \cup BinaryInputs \cup ParenInputs \cup CallInputs \cup TruncatedInputs
      \cup ReservedInputs \cup SimpleInputs \cup IdentInputs \cup CommaInputs

\* the input with every comment removed: from '#' up to, not including, the
\* next newline, carriage return or end of input
RECURSIVE StripComments(_, _)
StripComments(chars, in) ==
   IF chars = <<>> THEN <<>>
   ELSE LET c == Head(chars) IN
        IF in THEN IF c \in {"\n", "\r"} THEN <<c>> \o StripComments(Tail(chars), FALSE)
                   ELSE StripComments(Tail(chars), TRUE)
        ELSE IF c = "#" THEN StripComments(Tail(chars), TRUE)
        ELSE <<c>> \o StripComments(Tail(chars), FALSE)

----------------------------------------------------------------------------
(* The lexer driven on its own: every step is one nexttoken()              *)

EofCount(ts) == Cardinality({i \in 1..Len(ts) : ts[i].tok = tok_eof})

Lex ==
   [stdin |-> stdin, cursor |-> cursor, ident |-> ident, numval |-> numval,
    reads |-> reads]

InitCommon ==
   /\ stdin = input
   /\ cursor = " "
   /\ ident = ""
   /\ numval = [m |-> 0, e |-> 0]
   /\ reads = 0
   /\ token = "NUL"
   /\ precedence = InitPrecedence
   /\ pc = "start"
   /\ last = [kind |-> "none"]
   /\ stderr = <<>>
   /\ trace = <<>>
   /\ toks = <<>>
   /\ ref = NewLexer(StripComments(input, FALSE))
   /\ reftoks = <<>>

InitLex ==
   /\ input \in LexInputs
   /\ InitCommon

\* token = gettoken(), on both lexers
LexStep ==
   /\ EofCount(toks) < MaxEofCalls
   /\ LET r == gettoken(Lex)
          q == gettoken(ref)
      IN /\ token' = r.tok
         /\ stdin' = r.lx.stdin
         /\ cursor' = r.lx.cursor
         /\ ident' = r.lx.ident
         /\ numval' = r.lx.numval
         /\ reads' = r.lx.reads
         /\ toks' = Append(toks, Lexeme(r))
         /\ ref' = q.lx
         /\ reftoks' = Append(reftoks, Lexeme(q))
   /\ UNCHANGED <<input, precedence, pc, last, stderr, trace>>

NextLex == LexStep

SpecLex == InitLex /\ [][NextLex]_vars

----------------------------------------------------------------------------
(* The driver: init(); repl();  every step is one iteration of its loop    *)

Init ==
   /\ input \in ParseInputs
   /\ InitCommon

\* the globals at the start of a handler, and their values after it
Globals ==
   [lex |-> Lex, token |-> token, precedence |-> precedence,
    stderr |-> Append(stderr, "ready> "), trace |-> <<>>]

Becomes(m) ==
   /\ stdin' = m.lex.stdin
   /\ cursor' = m.lex.cursor
   /\ ident' = m.lex.ident
   /\ numval' = m.lex.numval
   /\ reads' = m.lex.reads
   /\ token' = m.token
   /\ precedence' = m.precedence
   /\ stderr' = m.stderr
   /\ trace' = m.trace

\* Handled, leaving the token where a failed parse left it
HandledNoSkip(r, msg) ==
   IF r.node # Null THEN [r.m EXCEPT !.stderr = Append(@, msg)] ELSE r.m

\* what a handler does with what its parse function returned
Handled(r, msg) ==
   IF r.node # Null THEN [r.m EXCEPT !.stderr = Append(@, msg)] ELSE nexttoken(r.m)

\* a handler: call the parse function, then report or skip a token
Handle(r, msg) ==
   /\ last' = r.node
   /\ Becomes(Handled(r, msg))

\* fprintf(stderr, "ready> "); nexttoken();
ReplStart ==
   /\ pc = "start"
   /\ Becomes(nexttoken(Globals))
   /\ pc' = "loop"
   /\ UNCHANGED <<input, last, toks, ref, reftoks>>

\* case tok_eof: return;
ReplEof ==
   /\ pc = "loop"
   /\ token = tok_eof
   /\ Becomes(Globals)
   /\ pc' = "done"
   /\ UNCHANGED <<input, last, toks, ref, reftoks>>

\* case ';': nexttoken();
ReplSemicolon ==
   /\ pc = "loop"
   /\ token = ";"
   /\ Becomes(nexttoken(Globals))
   /\ UNCHANGED <<input, pc, last, toks, ref, reftoks>>

\* case tok_def: handle_def();
HandleDef ==
   /\ pc = "loop"
   /\ token = tok_def
   /\ Handle(parse_def(Globals), "parsed a def\n")
   /\ UNCHANGED <<input, pc, toks, ref, reftoks>>

\* case tok_extern: handle_extern();
HandleExtern ==
   /\ pc = "loop"
   /\ token = tok_extern
   /\ Handle(parse_extern(Globals), "parsed an extern\n")
   /\ UNCHANGED <<input, pc, toks, ref, reftoks>>

\* default: handle_top_level_expr();
HandleTopLevelExpr ==
   /\ pc = "loop"
   /\ token \notin {tok_eof, ";", tok_def, tok_extern}
   /\ Handle(parse_top_level_expr(Globals), "parsed a top-level expr\n")
   /\ UNCHANGED <<input, pc, toks, ref, reftoks>>

Next ==
   \/ ReplStart
   \/ ReplEof
   \/ ReplSemicolon
   \/ HandleDef
   \/ HandleExtern
   \/ HandleTopLevelExpr

Spec == Init /\ [][Next]_vars

\* The program runs on one thread that never stops before repl returns: weak
\* fairness of Next.  Every step of repl is total and prints a prompt, so
\* <<Next>>_vars is enabled exactly when pc # "done", and WF_vars(Next) is
\* written with that predicate for ENABLED <<Next>>_vars.
FairSpec == Spec /\ ([]<>(pc = "done") \/ []<><<Next>>_vars)

----------------------------------------------------------------------------
(* What the lexer is about to classify, told from the input alone          *)

\* the characters the lexer has not classified yet: the lookahead, then stdin
Pending == IF cursor = EOF THEN <<>> ELSE <<cursor>> \o stdin

\* chars without its leading whitespace and comments
RECURSIVE SkipBlank(_, _)
SkipBlank(chars, in) ==
   IF chars = <<>> THEN <<>>
   ELSE LET c == Head(chars) IN
        IF in THEN SkipBlank(Tail(chars), c \notin {"\n", "\r"})
        ELSE IF c = "#" THEN SkipBlank(Tail(chars), TRUE)
        ELSE IF c \in {" ", "\t", "\n", "\f", "\r"} THEN SkipBlank(Tail(chars), FALSE)
        ELSE chars

\* the length of the longest prefix of chars made of characters of S
RECURSIVE RunLen(_, _)
RunLen(chars, S) ==
   IF chars # <<>> /\ Head(chars) \in S THEN 1 + RunLen(Tail(chars), S) ELSE 0

RECURSIVE Str(_)
Str(chars) == IF chars = <<>> THEN "" ELSE Head(chars) \o Str(Tail(chars))

\* the lookahead and the unread input once the first n characters of p are a token
LeftAfter(p, n) ==
   /\ cursor' = IF n < Len(p) THEN p[n + 1] ELSE EOF
   /\ stdin' = SubSeq(p, n + 2, Len(p))

RECURSIVE IntOf(_)
IntOf(ds) == IF ds = <<>> THEN 0 ELSE IntOf(SubSeq(ds, 1, Len(ds) - 1)) * 10 + DigitVal(ds[Len(ds)])

RECURSIVE Pow10(_)
Pow10(n) == IF n = 0 THEN 1 ELSE 10 * Pow10(n - 1)

Dots(run) == Cardinality({i \in 1..Len(run) : run[i] = "."})

\* the value of a literal of digits with at most one decimal point, as m / 10^e
LiteralValue(run) ==
   LET k == IF Dots(run) = 0 THEN Len(run) ELSE CHOOSE i \in 1..Len(run) : run[i] = "."
   IN [m |-> IntOf(SelectSeq(run, isdigit)), e |-> Len(run) - k]

SameValue(a, b) == a.m * Pow10(b.e) = b.m * Pow10(a.e)

----------------------------------------------------------------------------
(* Claims on the lexer, under SpecLex *)

\* C7: a word (alphabetic first character, alphanumeric rest, ended by a
\* non-alphanumeric character or the end of input) that the lexer is about to
\* classify comes back as exactly one token: tok_def for "def", tok_extern for
\* "extern", otherwise tok_ident with ident equal to the word; the character
\* after the word is the lookahead of the next call.
C7_IdentifierExact ==
   [][LexStep =>
        LET p == SkipBlank(Pending, FALSE) IN
        (p # <<>> /\ p[1] \in Lower \cup Upper) =>
           LET n == RunLen(p, Lower \cup Upper \cup Digits)
               s == Str(SubSeq(p, 1, n))
           IN /\ s = "def" => token' = tok_def
              /\ s = "extern" => token' = tok_extern
              /\ s \notin {"def", "extern"} => token' = tok_ident
              /\ ident' = s
              /\ LeftAfter(p, n)]_vars

C7_Witness ==
   /\ Len(toks) = 2
   /\ toks[1] = [tok |-> tok_ident, ident |-> "externx", numval |-> [m |-> 0, e |-> 0]]
   /\ toks[2] = [tok |-> tok_extern, ident |-> "extern", numval |-> [m |-> 0, e |-> 0]]

\* C8: the tokens returned on an input, with their payloads, are the tokens
\* returned on the same input with every comment removed, call after call,
\* the end-of-input token after a comment that runs to the end of input included.
C8_CommentsInvisible == toks = reftoks

C8_Witness ==
   /\ input = <<"#", "x", "\n", "1">>
   /\ Len(toks) = 2
   /\ toks[1].tok = tok_number
   /\ toks[2].tok = tok_eof

C8_WitnessEof ==
   /\ input = <<"x", "#", "1">>
   /\ Len(toks) = 2
   /\ toks[2].tok = tok_eof

\* C9: a literal that starts with a digit and is a run of digits with at most
\* one decimal point comes back as exactly one tok_number whose numval is the
\* value of the whole run, and the character that ended the run is the lookahead.
C9_NumberValue ==
   [][LexStep =>
        LET p == SkipBlank(Pending, FALSE) IN
        (p # <<>> /\ p[1] \in Digits) =>
           LET n == RunLen(p, Digits \cup {"."})
               run == SubSeq(p, 1, n)
           IN Dots(run) <= 1 =>
                 /\ token' = tok_number
                 /\ SameValue(numval', LiteralValue(run))
                 /\ LeftAfter(p, n)]_vars

C9_Witness ==
   /\ input = <<"1", ".", "1", "+">>
   /\ token = tok_number
   /\ numval = [m |-> 11, e |-> 1]
   /\ cursor = "+"

----------------------------------------------------------------------------
(* Claims on the parser, under Spec *)

\* the number of prompts printed: one by repl before its loop, one per iteration
Prompts == Cardinality({i \in 1..Len(stderr) : stderr[i] = "ready> "})

\* the first iteration of the loop has run a handler, and no other has run yet
AfterFirstUnit == pc = "loop" /\ Prompts = 2 /\ last # [kind |-> "none"]

\* what parse_top_level_expr returns for an expression parsed to body
TopLevel(body) == FunctionAST(PrototypeAST("__anon_expr", <<>>), body)

\* C1: a op1 b op2 c, op2 of strictly higher precedence than op1, followed by
\* ';' or the end of input, parses to Binary(op1, a, Binary(op2, b, c)).
C1_HigherPrecedenceBindsTighter ==
   \A a \in Atoms, b \in Atoms, c \in Atoms, op1 \in Operators, op2 \in Operators,
      t \in Terminators :
      (/\ InitPrecedence[op2] > InitPrecedence[op1]
       /\ input = BinaryText(a, op1, b, op2, c) \o t
       /\ AfterFirstUnit)
      => last = TopLevel(BinaryExprAST(op1, a.ast, BinaryExprAST(op2, b.ast, c.ast)))

\* C2: a op b op' c, op and op' of equal precedence, followed by ';' or the end
\* of input, parses to Binary(op', Binary(op, a, b), c).
C2_EqualPrecedenceLeftAssociative ==
   \A a \in Atoms, b \in Atoms, c \in Atoms, op1 \in Operators, op2 \in Operators,
      t \in Terminators :
      (/\ InitPrecedence[op2] = InitPrecedence[op1]
       /\ input = BinaryText(a, op1, b, op2, c) \o t
       /\ AfterFirstUnit)
      => last = TopLevel(BinaryExprAST(op2, BinaryExprAST(op1, a.ast, b.ast), c.ast))

\* C3: (a op1 b) op2 c, for any two operators of the table, followed by ';' or
\* the end of input, parses to Binary(op2, Binary(op1, a, b), c).
C3_ParenthesesOverridePrecedence ==
   \A a \in Atoms, b \in Atoms, c \in Atoms, op1 \in Operators, op2 \in Operators,
      t \in Terminators :
      (/\ input = ParenText(a, op1, b, op2, c) \o t
       /\ AfterFirstUnit)
      => last = TopLevel(BinaryExprAST(op2, BinaryExprAST(op1, a.ast, b.ast), c.ast))

\* C4: foo(e1, ..., en) with well-formed arguments parses to a Call whose callee
\* is foo and whose arguments are the n parsed arguments in source order.
C4_CallArgumentsInOrder ==
   \A as \in ArgumentLists, t \in Terminators :
      (/\ input = CallText(as) \o t
       /\ AfterFirstUnit)
      => last = TopLevel(CallExprAST("foo", [i \in 1..Len(as) |-> as[i].ast]))

\* C5: on foo(1, followed by the end of input the call parser returns failure,
\* without a failed assertion, with the current token still the one the error
\* was reported at (end of input, nothing left to read), and after the
\* driver's skip the current token is end of input, at which the loop stops.
FooOpen == <<"f", "o", "o", "(", "1", ",">>

C5_TruncatedCallFails ==
   (input = FooOpen /\ Prompts >= 2) =>
      /\ last = Null
      /\ token = tok_eof /\ stdin = <<>> /\ cursor = EOF
      /\ pc = "loop" =>
            /\ \A i \in 1..Len(trace) : trace[i].ev # "assert_failed"
            /\ \E i \in 1..Len(trace), j \in 1..Len(trace) :
                  /\ j < i
                  /\ trace[j].ev = "err" /\ trace[j].token = tok_eof
                  /\ trace[i].ev = "ret" /\ trace[i].fn = "parse_ident_expr"
                  /\ trace[i].node = Null /\ trace[i].token = tok_eof
                  /\ trace[i].left = trace[j].left
                  /\ trace[i].cursor = trace[j].cursor
            /\ ENABLED ReplEof

C5_Witness == input = FooOpen /\ pc = "done" /\ last = Null /\ Prompts = 3

\* C6: whenever a parse function returns failure, the current token and the
\* lexer are as they were when the error was reported: nothing was consumed
\* past the offending token.
SameSpot(e, f) == e.token = f.token /\ e.cursor = f.cursor /\ e.left = f.left

C6_FailureLeavesOffendingToken ==
   \A i \in 1..Len(trace) :
      (trace[i].ev = "ret" /\ trace[i].node = Null) =>
         \E j \in 1..(i - 1) :
            /\ trace[j].ev = "err"
            /\ \A k \in (j + 1)..i : trace[k].ev # "err"
            /\ SameSpot(trace[i], trace[j])

C6_Witness ==
   \E i \in 1..Len(trace), j \in 1..Len(trace) :
      /\ trace[j].ev = "ret" /\ trace[j].fn = "parse_prototype" /\ trace[j].node = Null
      /\ trace[i].ev = "ret" /\ trace[i].fn = "parse_def" /\ trace[i].node = Null
      /\ trace[i].token = tok_number
      /\ token # tok_number

C6_WitnessParen ==
   \E i \in 1..Len(trace) :
      /\ trace[i].ev = "ret" /\ trace[i].fn = "parse_paren_expr"
      /\ trace[i].node = Null /\ trace[i].token = tok_ident /\ trace[i].left > 0

\* C10: no parse changes the precedence table: it keeps the six entries of init.
C10_TableReadOnly == precedence = InitPrecedence

\* what is left to consume: the current token unless it is the end of input,
\* the lookahead character unless it is EOF, and the unread characters
Unconsumed ==
   Len(stdin) + (IF cursor = EOF THEN 0 ELSE 1) + (IF token = tok_eof THEN 0 ELSE 1)

\* C11: on every input the driver reaches the end of input and returns, and
\* every iteration of its loop that does not return consumes at least one
\* token, the iterations whose parse failed without consuming anything included.
C11_DriverTerminates ==
   /\ <>(pc = "done")
   /\ [][(pc = "loop" /\ pc' = "loop") => Unconsumed' < Unconsumed]_vars

C11_Witness ==
   /\ input = <<")", ")">>
   /\ pc = "done"
   /\ last = Null
   /\ Prompts = 4

\* C12: a parsed top-level expression is a Function whose prototype is the
\* reserved name with no parameters, and neither the identifier string of the
\* lexer nor the name of a Prototype returned by parse_prototype is ever the
\* reserved name.
C12_ReservedNameNeverCollides ==
   /\ ident # "__anon_expr"
   /\ \A i \in 1..Len(trace) :
         (trace[i].ev = "ret" /\ trace[i].node # Null) =>
            /\ trace[i].fn = "parse_prototype" => trace[i].node.name # "__anon_expr"
            /\ trace[i].fn = "parse_top_level_expr" =>
                  trace[i].node.proto = PrototypeAST("__anon_expr", <<>>)

C12_Witness ==
   /\ input = Reserved
   /\ last = TopLevel(VariableExprAST("anon"))
   /\ \E i \in 1..Len(trace) :
         trace[i].ev = "ret" /\ trace[i].fn = "parse_top_level_expr" /\ trace[i].node = last

\* a node all of whose children are present
RECURSIVE Complete(_)
Complete(n) ==
   CASE n.kind \in {"Number", "Variable", "Prototype"} -> TRUE
     [] n.kind = "Binary" -> Complete(n.left) /\ Complete(n.right)
     [] n.kind = "Call" -> \A i \in 1..Len(n.args) : Complete(n.args[i])
     [] n.kind = "Function" -> n.proto.kind = "Prototype" /\ Complete(n.body)
     [] OTHER -> FALSE

\* C13: what a parse function returns is the failure indicator or a node all
\* of whose children are present, and once a parse function has returned
\* failure every function that returns after it, its callers, returns failure.
C13_NoPartialTree ==
   /\ last = [kind |-> "none"] \/ last = Null \/ Complete(last)
   /\ \A i \in 1..Len(trace) :
         trace[i].ev = "ret" =>
            /\ trace[i].node = Null \/ Complete(trace[i].node)
            /\ \A j \in 1..(i - 1) :
                  (trace[j].ev = "ret" /\ trace[j].node = Null) => trace[i].node = Null

C13_Witness ==
   /\ last = Null
   /\ \E i \in 1..Len(trace), j \in 1..Len(trace), k \in 1..Len(trace) :
         /\ i < j /\ j < k
         /\ trace[i].ev = "ret" /\ trace[i].fn = "parse_prototype" /\ trace[i].node # Null
         /\ trace[j].ev = "ret" /\ trace[j].fn = "parse_expr" /\ trace[j].node = Null
         /\ trace[k].ev = "ret" /\ trace[k].fn = "parse_def" /\ trace[k].node = Null

C13_WitnessCall ==
   /\ last # Null
   /\ \E i \in 1..Len(trace) :
         /\ trace[i].ev = "ret" /\ trace[i].node # Null
         /\ trace[i].node.kind = "Call" /\ Len(trace[i].node.args) = 2

\* the token a terminator is lexed to
TerminatorToken(t) == IF t = <<>> THEN tok_eof ELSE t[1]

\* C14: the precedence tested at the top of every iteration of the loop of
\* parse_binary_op_right is that of the token current at that iteration: on
\* a op b followed by a token that is no operator, the routine returns
\* Binary(op, a, b) and leaves that token as the current token.
C14_PrecedenceReadEveryIteration ==
   \A a \in Atoms, b \in Atoms, op \in Operators, t \in Terminators :
      (input = SimpleText(a, op, b) \o t /\ AfterFirstUnit) =>
         /\ last = TopLevel(BinaryExprAST(op, a.ast, b.ast))
         /\ token = TerminatorToken(t)

\* C15: the name in the node built by parse_ident_expr is the identifier that
\* was current when it was entered, whatever identifiers or keywords are
\* lexed after it: x y gives Variable x, f(a, b) gives callee f.
C15_NameIsEnteredIdentifier ==
   \A c \in IdentCases :
      (input = c.text /\ AfterFirstUnit) => last = TopLevel(c.ast)

\* C16: an argument list that ends with a comma directly before ')' makes the
\* call parser return failure.
C16_TrailingCommaRejected ==
   \A t \in Terminators :
      (input = TrailingComma \o t /\ AfterFirstUnit) => last = Null

\* parse_prototype has returned node with tok as the current token
PrototypeReturned(node, tok) ==
   \E i \in 1..Len(trace) :
      /\ trace[i].ev = "ret" /\ trace[i].fn = "parse_prototype"
      /\ trace[i].node = node /\ trace[i].token = tok

\* C17: parse_prototype on f ( p1 ... pn ) returns Prototype{f, [p1, ..., pn]}
\* with the token after ')' as the current token; a token between the
\* parentheses that is neither an identifier nor ')' makes it return failure
\* with that token as the current token.
C17_PrototypeParsed ==
   \A k \in ProtoKeywords, ps \in ParamLists :
      /\ \A w \in Follows :
            (input = ProtoText(k, ps, w) /\ AfterFirstUnit) =>
               /\ PrototypeReturned(PrototypeAST("f", ps), w.token)
               /\ k[1] = "e" => (last = PrototypeAST("f", ps) /\ token = w.token)
      /\ \A x \in NotParams, qs \in ParamLists :
            (input = BadProtoText(k, ps, x, qs) /\ AfterFirstUnit) =>
               /\ PrototypeReturned(Null, x.token)
               /\ last = Null

C17_Witness ==
   /\ input = <<"e", "x", "t", "e", "r", "n", " ", "f", "(", " ", "a", " ", "b", ")", ";">>
   /\ last = PrototypeAST("f", <<"a", "b">>)
   /\ token = ";"
   /\ ident = "b"

C17_WitnessFailure ==
   /\ input = <<"d", "e", "f", " ", "f", "(", " ", "a", " ", ",", " ", "b", ")">>
   /\ AfterFirstUnit
   /\ PrototypeReturned(Null, ",")

----------------------------------------------------------------------------
(* More claims on the lexer, under SpecLex *)

\* how many characters at the head of p, which starts with no blank, make up
\* the next token
TokenLen(p) ==
   IF p[1] \in Lower \cup Upper THEN RunLen(p, Lower \cup Upper \cup Digits)
   ELSE IF p[1] \in Digits THEN RunLen(p, Digits \cup {"."})
   ELSE 1

\* C18: a call of the lexer skips the whitespace and comments at the head of
\* what is not classified yet (the lookahead, then the unread input), returns
\* one token made of the characters that follow, and leaves the character
\* that ended the token as the lookahead with everything after it unread: no
\* character is lost and none is classified twice.
C18_LookaheadPreserved ==
   [][LexStep =>
        LET p == SkipBlank(Pending, FALSE) IN
        IF p = <<>> THEN token' = tok_eof /\ Pending' = <<>>
        ELSE /\ Pending' = SubSeq(p, TokenLen(p) + 1, Len(p))
             /\ p[1] \in Lower \cup Upper =>
                   /\ token' \in {tok_ident, tok_def, tok_extern}
                   /\ ident' = Str(SubSeq(p, 1, TokenLen(p)))
             /\ p[1] \in Digits => token' = tok_number
             /\ p[1] \notin Lower \cup Upper \cup Digits => token' = p[1]]_vars

C18_Witness ==
   /\ input = <<"x", "+", "1">>
   /\ Len(toks) = 4
   /\ toks[1] = [tok |-> tok_ident, ident |-> "x", numval |-> [m |-> 0, e |-> 0]]
   /\ toks[2].tok = "+"
   /\ toks[3] = [tok |-> tok_number, ident |-> "x", numval |-> [m |-> 1, e |-> 0]]
   /\ toks[4].tok = tok_eof

\* C19: once the lexer has returned tok_eof, every later call returns tok_eof,
\* calls getchar no more, and leaves ident and numval as they were.
C19_EofAbsorbing ==
   [][(LexStep /\ token = tok_eof) =>
         /\ token' = tok_eof
         /\ reads' = reads
         /\ UNCHANGED <<stdin, cursor, ident, numval>>]_vars

C19_Witness ==
   /\ input = <<"1", " ", "x">>
   /\ Len(toks) = 4
   /\ toks[3].tok = tok_eof
   /\ toks[4] = toks[3]
   /\ ident = "x"
   /\ numval = [m |-> 1, e |-> 0]
   /\ reads = 4
   /\ stdin = <<>>

----------------------------------------------------------------------------
(* More claims on the parser, under Spec *)

\* C20: every assert evaluated at the entry of parse_number_expr finds the
\* number token as the current token, and every one at the entry of
\* parse_ident_expr the identifier token: no assertion fails.
C20_EntryAssertionsHold ==
   \A i \in 1..Len(trace) :
      trace[i].ev \in {"assert_ok", "assert_failed"} =>
         /\ trace[i].ev = "assert_ok"
         /\ trace[i].fn \in {"parse_number_expr", "parse_ident_expr"}
         /\ trace[i].fn = "parse_number_expr" => trace[i].token = tok_number
         /\ trace[i].fn = "parse_ident_expr" => trace[i].token = tok_ident

C20_Witness ==
   \E i \in 1..Len(trace), j \in 1..Len(trace) :
      /\ i < j
      /\ trace[i].ev = "assert_ok" /\ trace[i].fn = "parse_ident_expr"
      /\ trace[i].token = tok_ident
      /\ trace[j].ev = "assert_ok" /\ trace[j].fn = "parse_number_expr"
      /\ trace[j].token = tok_number

====
